---- MODULE Spec2Model ----
(***************************************************************************)
(* A model of the checkpointed repetition runner of                        *)
(* src/src/autotm/algorithms_for_tuning/utils/repeater.py.                 *)
(*                                                                         *)
(* Strings are sequences of tokens.  A token is an atomic piece of text    *)
(* (a TLA+ string); the text a sequence stands for is the concatenation of *)
(* its tokens.  The markers "IDEMPOTENT:" and "END", every white space     *)
(* character, every character that is not printable, the quotes, the       *)
(* backslash and the comma are tokens of their own, and no other token     *)
(* contains one of them, so that str.index, str.endswith, str.strip,       *)
(* str.split, repr and readlines act on tokens as they act on the          *)
(* characters.  The characters are those of U+0001 to U+00FF (an argument  *)
(* of the command line holds no U+0000).                                   *)
(* An Optional value is a sequence of length 0 (None) or 1.                *)
(*                                                                         *)
(* asyncio.wait depends on the interpreter: up to Python 3.10 it wraps the  *)
(* coroutines it is given into tasks, from Python 3.11 on it raises        *)
(* TypeError when it is given a coroutine.  The interpreter is an input of *)
(* the model (wait_takes_coroutines).  So is the installed PyYAML          *)
(* (yaml_load_defaults_loader): before 6.0 yaml.load(f) uses a default     *)
(* Loader, from 6.0 on it raises TypeError for the missing argument.       *)
(***************************************************************************)
EXTENDS Integers, Sequences, FiniteSets, TLC

\* ------------------------------------------------------------ bounds

MaxTime == 1
MaxInvocations == 2
MaxFileLen == 4

\* ------------------------------------------------ program constants

FULL_RECORD_SYMBOL == "END"
IDEMPOTENT_MARKER == "IDEMPOTENT:"
None == <<>>
Some(x) == <<x>>

\* ---------------------------------------------------- Python built-ins

Min(a, b) == IF a < b THEN a ELSE b
Max(a, b) == IF a > b THEN a ELSE b

\* str(n) for n >= 0.
RECURSIVE IntToStr(_)
IntToStr(n) ==
    IF n < 10 THEN <<ToString(n)>>
    ELSE IntToStr(n \div 10) \o <<ToString(n % 10)>>

\* sep.join(list)
RECURSIVE Join(_, _)
Join(list, sep) ==
    IF list = <<>> THEN <<>>
    ELSE IF Len(list) = 1 THEN list[1]
    ELSE list[1] \o sep \o Join(Tail(list), sep)

\* s.split(sep) for a one-token separator: every separator cuts, empty
\* pieces are kept.
RECURSIVE Split(_, _)
Split(s, sep) ==
    IF \A i \in 1..Len(s) : s[i] # sep THEN <<s>>
    ELSE LET i == CHOOSE k \in 1..Len(s) :
                      s[k] = sep /\ \A j \in 1..(k - 1) : s[j] # sep
         IN  <<SubSeq(s, 1, i - 1)>> \o Split(SubSeq(s, i + 1, Len(s)), sep)

\* str.isspace of a character
WhiteSpace ==
    {"\t", "\n", "", "\f", "\r", "", "", "", "", " ", "", " "}
IsSpace(tok) == tok \in WhiteSpace

\* s.strip()
RECURSIVE LStrip(_)
LStrip(s) == IF s # <<>> /\ IsSpace(s[1]) THEN LStrip(Tail(s)) ELSE s
RECURSIVE RStrip(_)
RStrip(s) ==
    IF s # <<>> /\ IsSpace(s[Len(s)]) THEN RStrip(SubSeq(s, 1, Len(s) - 1)) ELSE s
Strip(s) == RStrip(LStrip(s))

\* s.endswith(tok) for a one-token suffix
EndsWith(s, tok) == s # <<>> /\ s[Len(s)] = tok

\* f.readlines() of a file opened with open(path, "r"): the lines of the
\* text, each with its line break.  A line ends at "\n", "\r\n" or "\r", and
\* each of them is read as "\n" (universal newlines).
IsLineBreak(tok) == tok \in {"\n", "\r"}
RECURSIVE ReadLines(_)
ReadLines(text) ==
    IF text = <<>> THEN <<>>
    ELSE IF \A i \in 1..Len(text) : ~IsLineBreak(text[i]) THEN <<text>>
    ELSE LET i == CHOOSE k \in 1..Len(text) :
                      IsLineBreak(text[k]) /\ \A j \in 1..(k - 1) : ~IsLineBreak(text[j])
             next == IF text[i] = "\r" /\ i < Len(text) /\ text[i + 1] = "\n"
                     THEN i + 2 ELSE i + 1
         IN  <<SubSeq(text, 1, i - 1) \o <<"\n">> >>
             \o ReadLines(SubSeq(text, next, Len(text)))

\* repr of a str, token by token.  The delimiter is the single quote,
\* unless the string holds a single quote and no double quote.  The
\* backslash and the delimiter are escaped, and every character that is not
\* printable is written as its escape.
ReprQuote(s) ==
    IF (\E i \in 1..Len(s) : s[i] = "'") /\ ~(\E i \in 1..Len(s) : s[i] = "\"")
    THEN "\"" ELSE "'"
\* The characters for which str.isprintable is false, each with what repr
\* writes for it.
ReprEscapes ==
    {<<"", "\\x01">>, <<"", "\\x02">>, <<"", "\\x03">>, <<"", "\\x04">>,
     <<"", "\\x05">>, <<"", "\\x06">>, <<"", "\\x07">>, <<"", "\\x08">>,
     <<"\t", "\\t">>, <<"\n", "\\n">>, <<"", "\\x0b">>, <<"\f", "\\x0c">>,
     <<"\r", "\\r">>, <<"", "\\x0e">>, <<"", "\\x0f">>, <<"", "\\x10">>,
     <<"", "\\x11">>, <<"", "\\x12">>, <<"", "\\x13">>, <<"", "\\x14">>,
     <<"", "\\x15">>, <<"", "\\x16">>, <<"", "\\x17">>, <<"", "\\x18">>,
     <<"", "\\x19">>, <<"", "\\x1a">>, <<"", "\\x1b">>, <<"", "\\x1c">>,
     <<"", "\\x1d">>, <<"", "\\x1e">>, <<"", "\\x1f">>, <<"", "\\x7f">>,
     <<"", "\\x80">>, <<"", "\\x81">>, <<"", "\\x82">>, <<"", "\\x83">>,
     <<"", "\\x84">>, <<"", "\\x85">>, <<"", "\\x86">>, <<"", "\\x87">>,
     <<"", "\\x88">>, <<"", "\\x89">>, <<"", "\\x8a">>, <<"", "\\x8b">>,
     <<"", "\\x8c">>, <<"", "\\x8d">>, <<"", "\\x8e">>, <<"", "\\x8f">>,
     <<"", "\\x90">>, <<"", "\\x91">>, <<"", "\\x92">>, <<"", "\\x93">>,
     <<"", "\\x94">>, <<"", "\\x95">>, <<"", "\\x96">>, <<"", "\\x97">>,
     <<"", "\\x98">>, <<"", "\\x99">>, <<"", "\\x9a">>, <<"", "\\x9b">>,
     <<"", "\\x9c">>, <<"", "\\x9d">>, <<"", "\\x9e">>, <<"", "\\x9f">>,
     <<" ", "\\xa0">>, <<"­", "\\xad">>}
ReprTok(tok, quote) ==
    IF tok = "\\" THEN "\\\\"
    ELSE IF tok = "'" /\ quote = "'" THEN "\\'"
    ELSE IF \E e \in ReprEscapes : e[1] = tok
    THEN (CHOOSE e \in ReprEscapes : e[1] = tok)[2]
    ELSE tok
ReprStr(s) ==
    LET quote == ReprQuote(s)
    IN  <<quote>> \o [i \in 1..Len(s) |-> ReprTok(s[i], quote)] \o <<quote>>
\* repr of a list of str: f"{rep_run.volatile_args}"
ReprList(list) ==
    <<"[">> \o Join([i \in 1..Len(list) |-> ReprStr(list[i])], <<",", " ">>) \o <<"]">>

\* list[:k] and list[k:] with Python's negative indices.
PySliceTo(list, k) ==
    IF k >= 0 THEN SubSeq(list, 1, Min(k, Len(list)))
    ELSE SubSeq(list, 1, Max(Len(list) + k, 0))
PySliceFromStart(list, k) == list
PySliceFrom(list, k) ==
    IF k >= 0 THEN SubSeq(list, Min(k, Len(list)) + 1, Len(list))
    ELSE SubSeq(list, Max(Len(list) + k, 0) + 1, Len(list))

\* The elements of a sequence, and its permutations (random.sample(l, len(l))).
Range(s) == {s[i] : i \in DOMAIN s}
Perms(s) ==
    {p \in [1..Len(s) -> 1..Len(s)] : \A i, j \in 1..Len(s) : p[i] = p[j] => i = j}

\* ----------------------------------------------------- RepetitionRun

\* RepetitionRun.args
RunArgs(rep_run) == rep_run.volatile_args \o rep_run.idempotent_args

\* ------------------------------------------------- checkpoint records

_get_checkpoint_record(rep_run) ==
    <<"VOLATILE:", " ">> \o ReprList(rep_run.volatile_args) \o <<"\t">>
    \o <<IDEMPOTENT_MARKER, " ">> \o IntToStr(rep_run.repetition_attempt)
    \o <<"\t">> \o rep_run.cmd
    \o <<"\t">> \o Join(rep_run.idempotent_args, <<" ">>)
    \o <<"\t", FULL_RECORD_SYMBOL>>

\* record.index("IDEMPOTENT:"): 0 stands for the ValueError of a record
\* without the marker.
Index(record, tok) ==
    IF \A i \in 1..Len(record) : record[i] # tok THEN 0
    ELSE CHOOSE k \in 1..Len(record) :
             record[k] = tok /\ \A j \in 1..(k - 1) : record[j] # tok

\* _get_idempotent_checkpoint_record of a str; KeyRaises tells the ValueError.
KeyRaises(record) == Index(record, IDEMPOTENT_MARKER) = 0
KeyOfRecord(record) == SubSeq(record, Index(record, IDEMPOTENT_MARKER), Len(record))

\* _get_idempotent_checkpoint_record of a RepetitionRun.
_get_idempotent_checkpoint_record(rep_run) ==
    KeyOfRecord(_get_checkpoint_record(rep_run))

\* ------------------------------------------------------ configuration

\* The yaml configuration: datasets and configurations, each configuration
\* with cmd, args, workdir and repetitions.
MaxReps == 2

D1 == <<"d1">>
D2 == <<"d2">>
AlgX == [cmd |-> <<"run">>, args |-> <<"-x", " ", "1">>, workdir |-> <<"/", "w">>,
         repetitions |-> 2]
AlgR == [cmd |-> <<"rep">>, args |-> <<"-r">>, workdir |-> <<"/", "w", "/">>,
         repetitions |-> MaxReps]
AlgY == [cmd |-> <<"fit">>, args |-> <<"-y">>, workdir |-> <<"w">>,
         repetitions |-> 1]
CfgThree == [datasets |-> <<D1>>, configurations |-> <<AlgX, AlgY>>]
CfgDup == [datasets |-> <<D1, D1>>, configurations |-> <<AlgY>>]
CfgEmpty == [datasets |-> <<>>, configurations |-> <<AlgY>>]
CfgTwo == [datasets |-> <<D1, D2>>, configurations |-> <<AlgY>>]
CfgReps == [datasets |-> <<D2>>, configurations |-> <<AlgR>>]

\* The (dataset, configuration, attempt) triples of a configuration in the
\* order of the loops of _prepare_configurations: indices into datasets and
\* configurations, and the attempt i of range(repetitions).
RECURSIVE Flatten(_)
Flatten(ss) == IF ss = <<>> THEN <<>> ELSE ss[1] \o Flatten(Tail(ss))
Triples(cfg) ==
    Flatten([d \in 1..Len(cfg.datasets) |->
        Flatten([c \in 1..Len(cfg.configurations) |->
            [i \in 1..cfg.configurations[c].repetitions |-> <<d, c, i - 1>>]])])

\* The KeyError of _prepare_configurations on a configuration that lacks a
\* key.  cfg["datasets"] and cfg["configurations"] are read before the
\* checkpoint is loaded; the keys of a configuration entry are read when the
\* loops reach the entry, which they do when there is a dataset.
CfgKeys == {"datasets", "configurations"}
AlgCfgKeys == {"cmd", "args", "workdir", "repetitions"}
HasKeys(d, keys) == keys \subseteq DOMAIN d
KeyErrorAtStart(cfg) == ~HasKeys(cfg, CfgKeys)
BadEntries(cfg) ==
    {c \in 1..Len(cfg.configurations) : ~HasKeys(cfg.configurations[c], AlgCfgKeys)}
KeyErrorInLoops(cfg) ==
    /\ ~KeyErrorAtStart(cfg)
    /\ cfg.datasets # <<>>
    /\ BadEntries(cfg) # {}
NoExpansionError(cfg) == ""
ExpansionError(cfg) ==
    IF KeyErrorAtStart(cfg) \/ KeyErrorInLoops(cfg) THEN "KeyError" ELSE ""

\* The part of a configuration that the loops of _prepare_configurations
\* get through: all of it, or the first dataset with the entries before the
\* first one that lacks a key.
ExpandedCfg(cfg) ==
    IF KeyErrorAtStart(cfg) THEN [datasets |-> <<>>, configurations |-> <<>>]
    ELSE IF KeyErrorInLoops(cfg)
    THEN LET bad == CHOOSE c \in BadEntries(cfg) : \A b \in BadEntries(cfg) : c <= b
         IN  [datasets |-> <<cfg.datasets[1]>>,
              configurations |-> SubSeq(cfg.configurations, 1, bad - 1)]
    ELSE cfg

\* os.path.join(a, b) for a relative b
PathJoin(a, b) == IF a = <<>> \/ EndsWith(a, "/") THEN a \o b ELSE a \o <<"/">> \o b

\* os.getcwd() of the process that runs main.
Cwd == <<"/", "cwd">>

\* os.path.isabs(path)
IsAbs(path) == path # <<>> /\ path[1] = "/"

\* The loop of os.path.normpath over the components of a path: "" and "."
\* are dropped, ".." removes the component before it, stays when the path is
\* relative and nothing or ".." is before it, and is dropped at the root.
RECURSIVE NormComps(_, _, _)
NormComps(comps, new_comps, initial_slashes) ==
    IF comps = <<>> THEN new_comps
    ELSE LET comp == Head(comps)
             kept ==
                 IF comp \in {<<>>, <<".">>} THEN new_comps
                 ELSE IF comp # <<"..">>
                         \/ (initial_slashes = 0 /\ new_comps = <<>>)
                         \/ (new_comps # <<>> /\ new_comps[Len(new_comps)] = <<"..">>)
                 THEN Append(new_comps, comp)
                 ELSE IF new_comps # <<>>
                 THEN SubSeq(new_comps, 1, Len(new_comps) - 1)
                 ELSE new_comps
         IN  NormComps(Tail(comps), kept, initial_slashes)

\* os.path.normpath(path): one leading slash, or two when the path starts
\* with exactly two.
Normpath(path) ==
    IF path = <<>> THEN <<".">>
    ELSE LET initial_slashes ==
                 IF path[1] # "/" THEN 0
                 ELSE IF Len(path) >= 2 /\ path[2] = "/"
                         /\ ~(Len(path) >= 3 /\ path[3] = "/")
                 THEN 2 ELSE 1
             comps == NormComps(Split(path, "/"), <<>>, initial_slashes)
             joined == [i \in 1..initial_slashes |-> "/"] \o Join(comps, <<"/">>)
         IN  IF joined = <<>> THEN <<".">> ELSE joined

\* os.path.abspath(path)
Abspath(path) == Normpath(IF IsAbs(path) THEN path ELSE PathJoin(Cwd, path))

\* The RepetitionRun that _prepare_configurations builds for a triple with
\* the fresh uid run_uid.  The field triple is not a field of the program's
\* RepetitionRun: it records which triple the run was built for.
MakeRun(cfg, shared_log_dir, run_tag, triple, run_uid) ==
    LET dataset == cfg.datasets[triple[1]]
        alg_cfg == cfg.configurations[triple[2]]
        log_file_path ==
            PathJoin(shared_log_dir, <<"run-log-">> \o IntToStr(run_uid) \o <<".log">>)
        stdout_logfile_path ==
            PathJoin(shared_log_dir,
                     <<"stdout-stderr-run-log-">> \o IntToStr(run_uid) \o <<".log">>)
    IN  [uid |-> run_uid,
         repetition_attempt |-> triple[3],
         cmd |-> alg_cfg.cmd,
         workdir |-> Abspath(alg_cfg.workdir),
         volatile_args |-> << <<"--tag">>, run_tag, <<"--log-file">>, log_file_path >>,
         idempotent_args |-> << <<"--dataset">>, dataset >> \o Split(alg_cfg.args, " "),
         logfile |-> log_file_path,
         stdout_logfile |-> stdout_logfile_path,
         triple |-> triple]

\* ------------------------------------------------- checkpoint loading

\* The lines of a checkpoint file that the loader accepts: stripped, and
\* ending with the sentinel.
EndsWithSentinel(line) == EndsWith(line, FULL_RECORD_SYMBOL)
AcceptedLines(text) ==
    LET lines == ReadLines(text)
    IN  SelectSeq([i \in 1..Len(lines) |-> Strip(lines[i])], EndsWithSentinel)

\* The set comprehension of _load_and_prepare_checkpoint over a file's text:
\* raised is "" or the name of the exception.
ParseCheckpoint(text) ==
    LET accepted == AcceptedLines(text)
    IN  IF \E i \in 1..Len(accepted) : KeyRaises(accepted[i])
        THEN [raised |-> "ValueError", checkpoint |-> {}]
        ELSE [raised |-> "",
              checkpoint |-> {KeyOfRecord(accepted[i]) : i \in 1..Len(accepted)}]

\* shutil.copy(previous, current) inside _load_and_prepare_checkpoint, on a
\* checkpoint directory (fs: the existing files, text: their content).
\* Paths are Optional file names.
NeverCopyPrevious(checkpoint_path, previous_checkpoint_path, fs, text) ==
    [raised |-> "", fs |-> fs, text |-> text]
CopyPreviousOrFail(checkpoint_path, previous_checkpoint_path, fs, text) ==
    [raised |-> IF checkpoint_path # None /\ previous_checkpoint_path # None
                   /\ previous_checkpoint_path[1] \notin fs
                THEN "FileNotFoundError" ELSE "",
     fs |-> fs, text |-> text]
CopyPrevious(checkpoint_path, previous_checkpoint_path, fs, text) ==
    IF checkpoint_path # None /\ previous_checkpoint_path # None
    THEN IF previous_checkpoint_path[1] \notin fs
         THEN [raised |-> "", fs |-> fs, text |-> text]
         ELSE IF previous_checkpoint_path[1] = checkpoint_path[1]
         THEN [raised |-> "SameFileError", fs |-> fs, text |-> text]
         ELSE [raised |-> "",
               fs |-> fs \cup {checkpoint_path[1]},
               text |-> [text EXCEPT ![checkpoint_path[1]] =
                                         text[previous_checkpoint_path[1]]]]
    ELSE [raised |-> "", fs |-> fs, text |-> text]

\* Repeater._load_and_prepare_checkpoint: the checkpoint set, the directory
\* after the copy, and the exception raised ("" for none).
_load_and_prepare_checkpoint(checkpoint_path, previous_checkpoint_path, fs, text) ==
    LET copied == CopyPrevious(checkpoint_path, previous_checkpoint_path, fs, text)
    IN  IF copied.raised # ""
        THEN [raised |-> copied.raised, checkpoint |-> {},
              fs |-> copied.fs, text |-> copied.text]
        ELSE IF checkpoint_path = None
        THEN \* os.path.exists(None)
             [raised |-> "TypeError", checkpoint |-> {},
              fs |-> copied.fs, text |-> copied.text]
        ELSE IF checkpoint_path[1] \in copied.fs
        THEN LET parsed == ParseCheckpoint(copied.text[checkpoint_path[1]])
             IN  [raised |-> parsed.raised, checkpoint |-> parsed.checkpoint,
                  fs |-> copied.fs, text |-> copied.text]
        ELSE [raised |-> "", checkpoint |-> {}, fs |-> copied.fs, text |-> copied.text]

\* The runs that _prepare_configurations yields for a loaded checkpoint set:
\* the k-th triple gets the uid first_uid + k, and a run whose record is in
\* the checkpoint set is skipped.
NeverInCheckpoint(checkpoint, rep_run) == TRUE
IsNotInCheckpoint(checkpoint, rep_run) ==
    _get_idempotent_checkpoint_record(rep_run) \notin checkpoint
YieldedRuns(cfg, shared_log_dir, run_tag, checkpoint, first_uid) ==
    LET triples == Triples(cfg)
        built == [k \in 1..Len(triples) |->
                     MakeRun(cfg, shared_log_dir, run_tag, triples[k], first_uid + k)]
        Keep(rep_run) == IsNotInCheckpoint(checkpoint, rep_run)
    IN  SelectSeq(built, Keep)

\* find_checkpoints: the latest file of the directory as the previous
\* checkpoint, and the file of the current time as the current one.  A file
\* name is the time stamp it embeds.
find_checkpoints(fs, now) ==
    LET previous_checkpoint_file ==
            IF fs = {} THEN None
            ELSE Some(CHOOSE f \in fs : \A g \in fs : g <= f)
    IN  <<previous_checkpoint_file, Some(now)>>

\* ------------------------------------------------------------- state

VARIABLES
    clock,                  \* datetime.now(), in seconds
    fs,                     \* the checkpoint files that exist, by time stamp
    text,                   \* the content of each checkpoint file
    cfg,                    \* the configuration of every invocation
    invLeft,                \* invocations of main still to come
    nextUid,                \* uuid4() has returned the uids 1..nextUid
    pc,                     \* where run_repetitions is: idle, waiting (the
                            \* bounded loop's asyncio.wait), waitall (the
                            \* unbounded asyncio.wait), returned, raised
    raised,                 \* the exception run_repetitions raised, or ""
    self,                   \* the Repeater: checkpoint_path, shared_log_dir, run_tag
    max_parallel_processes, \* Optional bound
    checkpoint,             \* the checkpoint set loaded by the expansion
    configurations,         \* the shuffled runs of the invocation
    processes,              \* the coroutines not yet given to asyncio.wait
    run_slots,              \* the tasks the bounded loop waits for
    total_done_count,
    task,                   \* per run: coroutine, created, running, exited,
                            \* succeeded, failed
    ret_code,               \* per run: the exit code of its process
    appended,               \* history: the runs whose record this invocation
                            \* appended to the checkpoint file, in order
    seed,                   \* history: the text of the current checkpoint file
                            \* when the expansion had loaded it
    recorded,               \* history: the triples whose run succeeded in an
                            \* earlier invocation that kept a checkpoint
    failed_last,            \* history: the triples whose run failed in the
                            \* invocation before this one
    previous_checkpoint_path, \* the argument of run_repetitions
    fs0,                    \* history: the checkpoint files that existed and
    text0,                  \* their content when main was called
    wait_takes_coroutines,  \* the interpreter's asyncio.wait wraps coroutines
                            \* (up to Python 3.10) or forbids them (from 3.11)
    yaml_load_defaults_loader, \* the installed PyYAML: yaml.load(f) takes a
                            \* default Loader (before 6.0) or requires one
    fnIn,                   \* the argument of a function applied on its own
    fnOut                   \* and its result

vars == <<clock, fs, text, cfg, invLeft, nextUid, pc, raised, self,
          max_parallel_processes, checkpoint, configurations, processes,
          run_slots, total_done_count, task, ret_code, appended, seed,
          recorded, failed_last, previous_checkpoint_path, fs0, text0, wait_takes_coroutines,
                   yaml_load_defaults_loader, fnIn, fnOut>>

Stamps == 0..MaxTime

\* What main is called with: --tag, --parallel, --runs-log-dir.
Tags == {None, Some(<<"x", IDEMPOTENT_MARKER>>)}
Parallels == {None, Some(0), Some(1), Some(2), Some(-1)}
LogDirs == {<<"/log">>}
ExitCodes == {0, 1}

Terminal == {"succeeded", "failed"}
RunIds == 1..Len(configurations)
\* The runs launched and not yet in a terminal state.
InFlight == {i \in RunIds : task[i] \in {"created", "running", "exited"}}
\* The runs not yet launched.
Backlog == {i \in RunIds : task[i] = "coroutine"}

\* ----------------------------------------------------------- actions

\* if max_parallel_processes:
Truthy(parallel) == parallel # None /\ parallel[1] # 0

\* The first slots of the bounded mode: processes[:max_parallel_processes].
FirstSlotsOne(procs, n) == PySliceTo(procs, 1)
FirstSlots(procs, n) == PySliceTo(procs, n)

\* if len(configurations) == 0: return
NeverNothingToCalculate(n) == FALSE
NothingToCalculate(n) == n = 0

\* _check_for_exceptions of the done tasks that raised: every exception is
\* caught and logged; the result is the exception that escapes ("" for none).
_check_for_exceptions(failed_done) == ""

\* datetime.now().strftime("%y-%m-%d-%H-%M") of Repeater.__init__: the
\* minute of the clock of seconds.
MinuteOf(t) == t \div 60

\* yaml.load(f) of main, called without a Loader: the exception it raises,
\* "" when it loads the configuration.
YamlLoadRaises(defaults_loader) == IF defaults_loader THEN "" ELSE "TypeError"

\* asyncio.wait(fs) of n tasks and coroutines, k of them coroutines: the
\* exception it raises before it waits, "" when it waits.  An empty fs is a
\* ValueError; a coroutine is wrapped into a task by an interpreter that
\* takes coroutines and is a TypeError for one that does not.
AsyncioWaitRaises(takes_coroutines, n, k) ==
    IF n = 0 THEN "ValueError(empty)"
    ELSE IF ~takes_coroutines /\ k > 0 THEN "TypeError"
    ELSE ""

\* The event loop of asyncio.run runs the tasks while run_repetitions waits.
\* When run_repetitions has raised, the loop still runs what is queued (a
\* process exit, the wake-up of a task, which then saves or fails) before
\* asyncio.run cancels the tasks that are left; a task that is cancelled
\* takes no further step.  When run_repetitions has returned no task is left.
LoopRuns == pc \in {"waiting", "waitall", "raised"}

\* main when yaml.load raises: nothing else of main is executed.
MainYamlError ==
    /\ pc \in {"idle", "returned", "raised"}
    /\ invLeft > 0
    /\ YamlLoadRaises(yaml_load_defaults_loader) # ""
    /\ pc' = "raised"
    /\ raised' = YamlLoadRaises(yaml_load_defaults_loader)
    /\ invLeft' = invLeft - 1
    /\ fs0' = fs /\ text0' = text
    /\ UNCHANGED <<clock, fs, text, cfg, nextUid, self,
                   max_parallel_processes, checkpoint, configurations, processes,
                   run_slots, total_done_count, task, ret_code, appended, seed,
                   recorded, failed_last, previous_checkpoint_path,
                   wait_takes_coroutines, yaml_load_defaults_loader, fnIn, fnOut>>

\* main after yaml.load, to the first await of run_repetitions: find_checkpoints,
\* Repeater.__init__, the expansion with the loading of the checkpoint, the
\* shuffle, and the creation of the first tasks.
MainLoaded(tag, parallel, use_checkpoint_dir, runs_log_dir) ==
    /\ pc \in {"idle", "returned", "raised"}
    /\ invLeft > 0
    /\ YamlLoadRaises(yaml_load_defaults_loader) = ""
    /\ LET found == IF use_checkpoint_dir THEN find_checkpoints(fs, clock)
                    ELSE <<None, None>>
           previous_checkpoint_file == found[1]
           checkpoint_file == found[2]
           shared_log_dir ==
               PathJoin(runs_log_dir, <<"run-">> \o IntToStr(MinuteOf(clock)))
           run_tag == IF tag # None THEN tag[1] ELSE IntToStr(nextUid + 1)
           first_uid == IF tag # None THEN nextUid ELSE nextUid + 1
           loaded == IF KeyErrorAtStart(cfg)
                     THEN [raised |-> "", checkpoint |-> {}, fs |-> fs, text |-> text]
                     ELSE _load_and_prepare_checkpoint(checkpoint_file,
                              previous_checkpoint_file, fs, text)
           expanded == ExpandedCfg(cfg)
           failed == IF loaded.raised # "" THEN loaded.raised
                     ELSE ExpansionError(cfg)
           yielded == IF failed # "" THEN <<>>
                      ELSE YieldedRuns(expanded, shared_log_dir, run_tag,
                                       loaded.checkpoint, first_uid)
           procs == [i \in 1..Len(yielded) |-> i]
           waited == IF failed # "" \/ NothingToCalculate(Len(yielded))
                        \/ Truthy(parallel)
                     THEN ""
                     ELSE AsyncioWaitRaises(wait_takes_coroutines,
                                            Len(procs), Len(procs))
       IN  \E p \in Perms(yielded) :
             /\ self' = [checkpoint_path |-> checkpoint_file,
                         shared_log_dir |-> shared_log_dir,
                         run_tag |-> run_tag]
             /\ max_parallel_processes' = parallel
             /\ fs' = loaded.fs
             /\ text' = loaded.text
             /\ checkpoint' = loaded.checkpoint
             /\ raised' = IF failed # "" THEN failed ELSE waited
             /\ seed' = IF checkpoint_file # None /\ checkpoint_file[1] \in loaded.fs
                        THEN loaded.text[checkpoint_file[1]] ELSE <<>>
             /\ nextUid' = IF loaded.raised # "" THEN first_uid
                           ELSE first_uid + Len(Triples(expanded))
             /\ configurations' = [i \in 1..Len(yielded) |-> yielded[p[i]]]
             /\ ret_code' = [i \in 1..Len(yielded) |-> 0]
             /\ total_done_count' = 0
             /\ appended' = <<>>
             /\ recorded' = recorded \cup
                    IF self.checkpoint_path = None THEN {}
                    ELSE {configurations[i].triple :
                             i \in {j \in RunIds : task[j] = "succeeded"}}
             /\ invLeft' = invLeft - 1
             /\ IF failed # ""
                THEN /\ pc' = "raised"
                     /\ processes' = <<>> /\ run_slots' = {} /\ task' = <<>>
                ELSE IF NothingToCalculate(Len(yielded))
                THEN /\ pc' = "returned"
                     /\ processes' = <<>> /\ run_slots' = {} /\ task' = <<>>
                ELSE IF Truthy(parallel)
                THEN LET slots == FirstSlots(procs, parallel[1])
                     IN  /\ run_slots' = Range(slots)
                         /\ processes' = IF Len(procs) > parallel[1]
                                         THEN PySliceFrom(procs, parallel[1])
                                         ELSE <<>>
                         /\ task' = [i \in 1..Len(yielded) |->
                                        IF i \in Range(slots) THEN "created"
                                        ELSE "coroutine"]
                         /\ pc' = IF slots = <<>> THEN "returned" ELSE "waiting"
                ELSE /\ run_slots' = {}
                     /\ processes' = procs
                     /\ task' = [i \in 1..Len(yielded) |->
                                    IF waited # "" THEN "coroutine" ELSE "created"]
                     /\ pc' = IF waited # "" THEN "raised" ELSE "waitall"
             /\ failed_last' =
                    {configurations[i].triple : i \in {j \in RunIds : task[j] = "failed"}}
             /\ previous_checkpoint_path' = previous_checkpoint_file
             /\ fs0' = fs /\ text0' = text
    /\ UNCHANGED <<clock, cfg, wait_takes_coroutines,
                   yaml_load_defaults_loader, fnIn, fnOut>>

\* main: yaml.load of the configuration, then the rest.
Main(tag, parallel, use_checkpoint_dir, runs_log_dir) ==
    \/ MainYamlError
    \/ MainLoaded(tag, parallel, use_checkpoint_dir, runs_log_dir)

\* _execute_run to proc.wait(): the log file is opened and the process is
\* created, or open or create_subprocess_exec raises (no such executable,
\* no such workdir) and the task ends with that exception, without a
\* process and without a record.
StartProcess(i, spawned) ==
    /\ LoopRuns
    /\ i \in RunIds /\ task[i] = "created"
    /\ task' = [task EXCEPT ![i] = IF spawned THEN "running" ELSE "failed"]
    /\ UNCHANGED <<clock, fs, text, cfg, invLeft, nextUid, pc, raised, self,
                   max_parallel_processes, checkpoint, configurations, processes,
                   run_slots, total_done_count, ret_code, appended, seed,
                   recorded, failed_last, previous_checkpoint_path, fs0, text0, wait_takes_coroutines,
                   yaml_load_defaults_loader, fnIn, fnOut>>

\* The process of a run exits with a code.
ProcessExit(i, code) ==
    /\ LoopRuns
    /\ i \in RunIds /\ task[i] = "running"
    /\ task' = [task EXCEPT ![i] = "exited"]
    /\ ret_code' = [ret_code EXCEPT ![i] = code]
    /\ UNCHANGED <<clock, fs, text, cfg, invLeft, nextUid, pc, raised, self,
                   max_parallel_processes, checkpoint, configurations, processes,
                   run_slots, total_done_count, appended, seed, recorded,
                   failed_last, previous_checkpoint_path, fs0, text0, wait_takes_coroutines,
                   yaml_load_defaults_loader, fnIn, fnOut>>

\* if ret_code != 0 of _execute_run: whether the run raises, and whether it
\* is saved.
RunRaises(code) == code # 0
ShouldSaveAlways(code) == TRUE
ShouldSave(code) == code = 0

\* _save_to_checkpoint: the text of the checkpoint file after the append.
SaveOverwriting(old, rep_run) == _get_checkpoint_record(rep_run) \o <<"\n">>
_save_to_checkpoint(old, rep_run) == old \o _get_checkpoint_record(rep_run) \o <<"\n">>

\* _execute_run after proc.wait(): raise on a non-zero code, else save.
FinishRun(i) ==
    /\ LoopRuns
    /\ i \in RunIds /\ task[i] = "exited"
    /\ task' = [task EXCEPT ![i] = IF RunRaises(ret_code[i]) THEN "failed"
                                   ELSE "succeeded"]
    /\ IF ShouldSave(ret_code[i]) /\ self.checkpoint_path # None
       THEN LET f == self.checkpoint_path[1]
                old == IF f \in fs THEN text[f] ELSE <<>>
            IN  /\ fs' = fs \cup {f}
                /\ text' = [text EXCEPT
                       ![f] = _save_to_checkpoint(old, configurations[i])]
                /\ appended' = Append(appended, i)
       ELSE UNCHANGED <<fs, text, appended>>
    /\ UNCHANGED <<clock, cfg, invLeft, nextUid, pc, raised, self,
                   max_parallel_processes, checkpoint, configurations, processes,
                   run_slots, total_done_count, ret_code, seed, recorded,
                   failed_last, previous_checkpoint_path, fs0, text0, wait_takes_coroutines,
                   yaml_load_defaults_loader, fnIn, fnOut>>

\* free_slots = max_parallel_processes - len(pending)
FreeSlotsOneMore(n, pending) == n - Cardinality(pending) + 1
FreeSlots(n, pending) == n - Cardinality(pending)

\* total_done_count += len(done)
DoneCountPerHarvest(total, done) == total + 1
DoneCount(total, done) == total + Cardinality(done)

\* One turn of the bounded loop: asyncio.wait returns with the tasks that are
\* done, _check_for_exceptions logs their errors, the free slots are filled
\* from the backlog, and the loop waits again or ends.
Harvest ==
    /\ pc = "waiting"
    /\ LET done == {i \in run_slots : task[i] \in Terminal}
           pending == run_slots \ done
           free_slots == FreeSlots(max_parallel_processes[1], pending)
           refill == PySliceTo(processes, free_slots)
           escaped == _check_for_exceptions({i \in done : task[i] = "failed"})
           slots == pending \cup Range(refill)
           waited == IF slots = {} THEN ""   \* while len(run_slots) > 0
                     ELSE AsyncioWaitRaises(wait_takes_coroutines,
                                            Cardinality(slots), Len(refill))
       IN  /\ done # {}
           /\ raised' = IF escaped # "" THEN escaped ELSE waited
           /\ IF escaped # ""
              THEN /\ pc' = "raised"
                   /\ UNCHANGED <<total_done_count, run_slots, processes, task>>
              ELSE /\ total_done_count' = DoneCount(total_done_count, done)
                   /\ run_slots' = slots
                   /\ processes' = IF Len(processes) > free_slots
                                   THEN PySliceFrom(processes, free_slots) ELSE <<>>
                   /\ task' = [i \in RunIds |->
                                  IF i \in Range(refill) /\ waited = ""
                                  THEN "created" ELSE task[i]]
                   /\ pc' = IF slots = {} THEN "returned"
                            ELSE IF waited # "" THEN "raised"
                            ELSE "waiting"
    /\ UNCHANGED <<clock, fs, text, cfg, invLeft, nextUid, self,
                   max_parallel_processes, checkpoint, configurations, ret_code,
                   appended, seed, recorded, failed_last, previous_checkpoint_path, fs0, text0, wait_takes_coroutines,
                   yaml_load_defaults_loader, fnIn, fnOut>>

\* The unbounded asyncio.wait(processes) returns when every task is done.
WaitAll ==
    /\ pc = "waitall"
    /\ \A i \in RunIds : task[i] \in Terminal
    /\ pc' = "returned"
    /\ UNCHANGED <<clock, fs, text, cfg, invLeft, nextUid, raised, self,
                   max_parallel_processes, checkpoint, configurations, processes,
                   run_slots, total_done_count, task, ret_code, appended, seed,
                   recorded, failed_last, previous_checkpoint_path, fs0, text0, wait_takes_coroutines,
                   yaml_load_defaults_loader, fnIn, fnOut>>

\* A second passes.  Only main reads the clock, so the seconds that pass
\* while an invocation runs are taken when it has ended.
Tick ==
    /\ pc \in {"idle", "returned", "raised"}
    /\ clock < MaxTime
    /\ clock' = clock + 1
    /\ UNCHANGED <<fs, text, cfg, invLeft, nextUid, pc, raised, self,
                   max_parallel_processes, checkpoint, configurations, processes,
                   run_slots, total_done_count, task, ret_code, appended, seed,
                   recorded, failed_last, previous_checkpoint_path, fs0, text0, wait_takes_coroutines,
                   yaml_load_defaults_loader, fnIn, fnOut>>

\* The exit status of the process that ran main: asyncio.run passes on the
\* exception of run_repetitions, and main returns after a run_repetitions
\* that returned.
ExitStatus == IF pc = "raised" THEN 1 ELSE 0

\* ------------------------------------------------------ specification

\* A checkpoint directory left by an earlier invocation with the tag t0: no
\* file, or a file at time 0 with the records of the first triples.
OldRun(c, triple, k) == MakeRun(c, <<"/old", "/", "run-", "0">>, <<"t0">>, triple, k)
RECURSIVE OldText(_, _, _)
OldText(c, done, k) ==
    IF k > Len(Triples(c)) THEN <<>>
    ELSE (IF k \in done
          THEN _get_checkpoint_record(OldRun(c, Triples(c)[k], k)) \o <<"\n">>
          ELSE <<>>) \o OldText(c, done, k + 1)

NoText == [s \in Stamps |-> <<>>]

InitRun ==
    /\ clock = 0
    /\ pc = "idle" /\ raised = ""
    /\ self = [checkpoint_path |-> None, shared_log_dir |-> <<>>, run_tag |-> <<>>]
    /\ max_parallel_processes = None
    /\ checkpoint = {}
    /\ configurations = <<>> /\ processes = <<>> /\ run_slots = {}
    /\ total_done_count = 0
    /\ task = <<>> /\ ret_code = <<>>
    /\ appended = <<>> /\ seed = <<>>
    /\ failed_last = {}
    /\ previous_checkpoint_path = None
    /\ fnOut = <<>>

Init ==
    /\ wait_takes_coroutines \in BOOLEAN
    /\ yaml_load_defaults_loader \in BOOLEAN
    /\ InitRun /\ fnIn = <<>>
    /\ cfg \in {CfgThree, CfgDup, CfgEmpty, CfgReps}
    /\ invLeft = 1
    /\ nextUid = Len(Triples(cfg))
    /\ \/ fs = {} /\ text = NoText /\ recorded = {}
       \/ \E n \in 0..Len(Triples(cfg)) : \E done \in {1..n} :
            /\ fs = {0}
            /\ text = [NoText EXCEPT ![0] = OldText(cfg, done, 1)]
            /\ recorded = {Triples(cfg)[k] : k \in done}
    /\ fs0 = fs /\ text0 = text

Next ==
    \/ \E tag \in Tags, parallel \in Parallels, use_checkpoint_dir \in BOOLEAN,
          runs_log_dir \in LogDirs :
          Main(tag, parallel, use_checkpoint_dir, runs_log_dir)
    \/ \E i \in RunIds, spawned \in BOOLEAN : StartProcess(i, spawned)
    \/ \E i \in RunIds, code \in ExitCodes : ProcessExit(i, code)
    \/ \E i \in RunIds : FinishRun(i)
    \/ Harvest
    \/ WaitAll
    \/ Tick

Spec == Init /\ [][Next]_vars

\* One invocation from an empty checkpoint directory, with the scheduling
\* an event loop and processes that exit give: every task that can take a
\* step takes it, every process exits, and a wait that can return returns.
LiveCfgs == {CfgThree, CfgReps}
LiveRuns == 1..Max(Len(Triples(CfgThree)), Len(Triples(CfgReps)))

InitLive ==
    /\ wait_takes_coroutines \in BOOLEAN
    /\ yaml_load_defaults_loader \in BOOLEAN
    /\ InitRun /\ fnIn = <<>>
    /\ cfg \in LiveCfgs
    /\ invLeft = 1
    /\ nextUid = 0
    /\ fs = {} /\ text = NoText /\ recorded = {}
    /\ fs0 = fs /\ text0 = text

\* The event loop runs every task while run_repetitions is waiting.  Once
\* run_repetitions has raised, asyncio.run cancels the tasks in flight: the
\* steps that were queued may still happen, none is guaranteed.
Fairness ==
    /\ \A i \in LiveRuns :
          /\ WF_vars(pc # "raised" /\ \E spawned \in BOOLEAN : StartProcess(i, spawned))
          /\ WF_vars(pc # "raised" /\ \E code \in ExitCodes : ProcessExit(i, code))
          /\ WF_vars(pc # "raised" /\ FinishRun(i))
    /\ WF_vars(Harvest)
    /\ WF_vars(WaitAll)

SpecLive == InitLive /\ [][Next]_vars /\ Fairness

\* Several invocations of main, one after the other, on one checkpoint
\* directory that is empty at first, with one configuration of two runs.
ResumeParallels == {None, Some(1)}

InitResume ==
    /\ wait_takes_coroutines \in BOOLEAN
    /\ yaml_load_defaults_loader \in BOOLEAN
    /\ InitRun /\ fnIn = <<>>
    /\ cfg = CfgTwo
    /\ invLeft = MaxInvocations
    /\ nextUid = 0
    /\ fs = {} /\ text = NoText /\ recorded = {}
    /\ fs0 = fs /\ text0 = text

NextResume ==
    \/ \E tag \in Tags, parallel \in ResumeParallels, runs_log_dir \in LogDirs :
          Main(tag, parallel, TRUE, runs_log_dir)
    \/ \E i \in RunIds, spawned \in BOOLEAN : StartProcess(i, spawned)
    \/ \E i \in RunIds, code \in ExitCodes : ProcessExit(i, code)
    \/ \E i \in RunIds : FinishRun(i)
    \/ Harvest
    \/ WaitAll
    \/ Tick

SpecResume == InitResume /\ [][NextResume]_vars

\* _get_idempotent_checkpoint_record applied to two RepetitionRun values
\* with the same repetition_attempt, cmd and idempotent_args.
KeyTags == {<<"t1">>, <<"t2">>, <<"x", IDEMPOTENT_MARKER>>,
            <<"t", "'", "s">>, <<"'", "\"", "\\">>,
            <<IDEMPOTENT_MARKER, "">>}
KeyLogDirs == {<<"/log">>, <<"/var", "/", "log">>}
KeyRuns ==
    {MakeRun(CfgThree, dir, tag, triple, uid) :
        dir \in KeyLogDirs, tag \in KeyTags,
        triple \in Range(Triples(CfgThree)), uid \in 1..2}

InitKey ==
    /\ wait_takes_coroutines = TRUE   \* asyncio.wait is not called
    /\ yaml_load_defaults_loader = TRUE   \* nor is yaml.load
    /\ InitRun
    /\ cfg = CfgThree /\ invLeft = 0 /\ nextUid = 0
    /\ fs = {} /\ text = NoText /\ recorded = {}
    /\ \E a, b \in KeyRuns :
          /\ a.repetition_attempt = b.repetition_attempt
          /\ a.cmd = b.cmd
          /\ a.idempotent_args = b.idempotent_args
          /\ fnIn = <<a, b>>
    /\ fs0 = fs /\ text0 = text

ApplyKey ==
    /\ pc = "idle"
    /\ pc' = "applied"
    /\ fnOut' = <<_get_idempotent_checkpoint_record(fnIn[1]),
                  _get_idempotent_checkpoint_record(fnIn[2])>>
    /\ UNCHANGED <<clock, fs, text, cfg, invLeft, nextUid, raised, self,
                   max_parallel_processes, checkpoint, configurations, processes,
                   run_slots, total_done_count, task, ret_code, appended, seed,
                   recorded, failed_last, previous_checkpoint_path, fs0, text0, wait_takes_coroutines,
                   yaml_load_defaults_loader, fnIn>>

SpecKey == InitKey /\ [][ApplyKey]_vars

\* _load_and_prepare_checkpoint applied to a checkpoint file with any text
\* of up to MaxFileLen tokens, without a previous checkpoint.
LoadAlphabet == {"a", IDEMPOTENT_MARKER, FULL_RECORD_SYMBOL, "\n", "\r", " "}
LoadTexts == UNION {[1..n -> LoadAlphabet] : n \in 0..MaxFileLen}

InitLoad ==
    /\ wait_takes_coroutines = TRUE   \* asyncio.wait is not called
    /\ yaml_load_defaults_loader = TRUE   \* nor is yaml.load
    /\ InitRun /\ fnIn = <<>>
    /\ cfg = CfgEmpty /\ invLeft = 0 /\ nextUid = 0
    /\ fs = {1} /\ recorded = {}
    /\ \E t \in LoadTexts : text = [NoText EXCEPT ![1] = t]
    /\ fs0 = fs /\ text0 = text

ApplyLoad ==
    /\ pc = "idle"
    /\ pc' = "applied"
    /\ fnOut' = _load_and_prepare_checkpoint(Some(1), None, fs, text)
    /\ UNCHANGED <<clock, fs, text, cfg, invLeft, nextUid, raised, self,
                   max_parallel_processes, checkpoint, configurations, processes,
                   run_slots, total_done_count, task, ret_code, appended, seed,
                   recorded, failed_last, previous_checkpoint_path, fs0, text0, wait_takes_coroutines,
                   yaml_load_defaults_loader, fnIn>>

SpecLoad == InitLoad /\ [][ApplyLoad]_vars

\* find_checkpoints applied to a checkpoint directory whose files have names
\* of their own: a path is a sequence of tokens, "/", "_" and the
\* extensions are tokens, and a time stamp of DATETIME_FORMAT is the token of
\* its date and minutes followed by the token of its second.
DatePart == "2020-01-01T00-00-0"
Extensions == {".txt", ".bak"}
Seconds == 0..9

\* datetime.strftime(DATETIME_FORMAT) of the time of second t.
Strftime(t) == <<DatePart, ToString(t)>>

\* datetime.strptime(dt_str, DATETIME_FORMAT): the second, or -1 for the
\* ValueError of a text that does not match the format.
Strptime(dt_str) ==
    IF Len(dt_str) = 2 /\ dt_str[1] = DatePart
       /\ \E n \in Seconds : ToString(n) = dt_str[2]
    THEN CHOOSE n \in Seconds : ToString(n) = dt_str[2]
    ELSE IF dt_str = <<DatePart>> THEN 0   \* %S takes a single digit
    ELSE -1

\* os.path.basename and os.path.splitext(...)[0]
Basename(path) == LET parts == Split(path, "/") IN parts[Len(parts)]
SplitextName(base) ==
    IF Len(base) > 1 /\ base[Len(base)] \in Extensions
    THEN SubSeq(base, 1, Len(base) - 1) ELSE base

\* extract_datetime: -1 for the ValueError of strptime.
extract_datetime(filename) ==
    LET name == SplitextName(Basename(filename))
        pieces == Split(name, "_")
        dt_str == pieces[Len(pieces)]
    IN  Strptime(dt_str)

\* glob.glob(f"{checkpoint_dir}/{checkpoint_prefix}_*.txt") over the paths
\* of the files that exist.
StartsWith(s, pre) == Len(s) >= Len(pre) /\ SubSeq(s, 1, Len(pre)) = pre
GlobCheckpoints(files, checkpoint_dir, checkpoint_prefix) ==
    LET head == checkpoint_dir \o <<"/">> \o checkpoint_prefix \o <<"_">>
    IN  {f \in files :
            /\ Len(f) >= Len(head) + 1
            /\ StartsWith(f, head)
            /\ f[Len(f)] = ".txt"
            /\ \A i \in (Len(head) + 1)..Len(f) : f[i] # "/"}

\* find_checkpoints over such a directory: the exception raised ("" for
\* none), the files that sorted(..., reverse=True) can put first (files with
\* equal time stamps keep the order glob listed them in), and the path of
\* the current checkpoint.
FindCheckpointsIn(all_files, checkpoint_dir, checkpoint_prefix, now) ==
    LET files == GlobCheckpoints(all_files, checkpoint_dir, checkpoint_prefix)
        latest == {f \in files :
                      \A g \in files : extract_datetime(g) <= extract_datetime(f)}
        checkpoint_file == checkpoint_dir \o <<"/">> \o checkpoint_prefix
                           \o <<"_">> \o Strftime(now) \o <<".txt">>
    IN  IF \E f \in files : extract_datetime(f) = -1
        THEN [raised |-> "ValueError", previous |-> {None}, current |-> None]
        ELSE [raised |-> "",
              previous |-> IF files = {} THEN {None} ELSE {Some(f) : f \in latest},
              current |-> Some(checkpoint_file)]

FindDir == <<"/ck">>
FindPrefix == <<"ckpt">>
FindPath(name) == FindDir \o <<"/">> \o name
\* The files a checkpoint directory may hold: checkpoints of the prefix for
\* every time, one whose second is written with a single digit, a
\* checkpoint of a longer prefix, a file of the prefix without
\* a time stamp, a checkpoint of another prefix and a backup copy.
FindNames ==
    {FindPath(FindPrefix \o <<"_">> \o Strftime(t) \o <<".txt">>) : t \in Stamps}
    \cup {FindPath(FindPrefix \o <<"_", DatePart, ".txt">>),
          FindPath(FindPrefix \o <<"_", "b", "_">> \o Strftime(MaxTime) \o <<".txt">>),
          FindPath(FindPrefix \o <<"_", "old", ".txt">>),
          FindPath(<<"other", "_">> \o Strftime(MaxTime) \o <<".txt">>),
          FindPath(FindPrefix \o <<"_">> \o Strftime(MaxTime) \o <<".txt", ".bak">>)}

InitFind ==
    /\ wait_takes_coroutines = TRUE   \* asyncio.wait is not called
    /\ yaml_load_defaults_loader = TRUE   \* nor is yaml.load
    /\ InitRun
    /\ cfg = CfgEmpty /\ invLeft = 0 /\ nextUid = 0
    /\ fs = {} /\ text = NoText /\ recorded = {}
    /\ \E files \in SUBSET FindNames, now \in Stamps :
          fnIn = [files |-> files, now |-> now]
    /\ fs0 = fs /\ text0 = text

ApplyFind ==
    /\ pc = "idle"
    /\ pc' = "applied"
    /\ LET found == FindCheckpointsIn(fnIn.files, FindDir, FindPrefix, fnIn.now)
       IN  \E previous \in found.previous :
              fnOut' = [raised |-> found.raised, previous |-> previous,
                        current |-> found.current]
    /\ UNCHANGED <<clock, fs, text, cfg, invLeft, nextUid, raised, self,
                   max_parallel_processes, checkpoint, configurations, processes,
                   run_slots, total_done_count, task, ret_code, appended, seed,
                   recorded, failed_last, previous_checkpoint_path, fs0, text0, wait_takes_coroutines,
                   yaml_load_defaults_loader, fnIn>>

SpecFind == InitFind /\ [][ApplyFind]_vars

\* _load_and_prepare_checkpoint applied to a checkpoint path and a previous
\* checkpoint path, each of a file that exists or not, over files with the
\* texts an invocation leaves: nothing, whole records, and whole records
\* followed by a record that was cut before its sentinel.
SeedRecord(k) == _get_checkpoint_record(OldRun(CfgTwo, Triples(CfgTwo)[k], k))
SeedTexts ==
    {<<>>,
     SeedRecord(1) \o <<"\n">>,
     SeedRecord(1) \o <<"\n">> \o SeedRecord(2) \o <<"\n">>,
     SeedRecord(1) \o <<"\n">> \o SubSeq(SeedRecord(2), 1, Len(SeedRecord(2)) - 1)}

InitSeed ==
    /\ wait_takes_coroutines = TRUE   \* asyncio.wait is not called
    /\ yaml_load_defaults_loader = TRUE   \* nor is yaml.load
    /\ InitRun
    /\ cfg = CfgTwo /\ invLeft = 0 /\ nextUid = 0
    /\ recorded = {}
    /\ fs \in SUBSET Stamps
    /\ text \in [Stamps -> SeedTexts]
    /\ \A f \in Stamps \ fs : text[f] = <<>>
    /\ \E checkpoint_path \in {Some(f) : f \in Stamps},
          previous \in {None} \cup {Some(f) : f \in Stamps} :
          fnIn = [checkpoint_path |-> checkpoint_path,
                  previous_checkpoint_path |-> previous]
    /\ fs0 = fs /\ text0 = text

ApplySeed ==
    /\ pc = "idle"
    /\ pc' = "applied"
    /\ fnOut' = _load_and_prepare_checkpoint(fnIn.checkpoint_path,
                    fnIn.previous_checkpoint_path, fs, text)
    /\ UNCHANGED <<clock, fs, text, cfg, invLeft, nextUid, raised, self,
                   max_parallel_processes, checkpoint, configurations, processes,
                   run_slots, total_done_count, task, ret_code, appended, seed,
                   recorded, failed_last, previous_checkpoint_path, fs0, text0, wait_takes_coroutines,
                   yaml_load_defaults_loader, fnIn>>

SpecSeed == InitSeed /\ [][ApplySeed]_vars

\* One invocation with a configuration that lacks a key: cfg without
\* datasets or without configurations, or a last configuration entry
\* without one of its keys, with and without a dataset to run it on; and,
\* next to these, a configuration that lacks nothing.  The checkpoint
\* directory is empty or holds the record of the first run.
WithoutKey(d, key) == [k \in DOMAIN d \ {key} |-> d[k]]
CfgBadLast(key) ==
    [datasets |-> <<D1, D2>>, configurations |-> <<AlgY, WithoutKey(AlgX, key)>>]
ConfigCfgs ==
    {WithoutKey(CfgTwo, key) : key \in CfgKeys}
    \cup {CfgBadLast(key) : key \in AlgCfgKeys}
    \cup {[datasets |-> <<>>, configurations |-> <<WithoutKey(AlgY, "cmd")>>],
          CfgTwo}

InitConfig ==
    /\ wait_takes_coroutines \in BOOLEAN
    /\ yaml_load_defaults_loader \in BOOLEAN
    /\ InitRun /\ fnIn = <<>>
    /\ cfg \in ConfigCfgs
    /\ invLeft = 1
    /\ nextUid = 0
    /\ \/ fs = {} /\ text = NoText /\ recorded = {}
       \/ /\ fs = {0}
          /\ text = [NoText EXCEPT ![0] = SeedRecord(1) \o <<"\n">>]
          /\ recorded = {Triples(CfgTwo)[1]}
    /\ fs0 = fs /\ text0 = text

SpecConfig == InitConfig /\ [][Next]_vars

\* _load_and_prepare_checkpoint applied to a checkpoint file that an
\* invocation was cut off writing to: whole record lines, or none, followed
\* by a proper prefix of the line that _save_to_checkpoint writes for a run.
\* The runs have tags and datasets with and without the text of the
\* sentinel in them.
CfgTorn == [datasets |-> <<D1, <<"TR", FULL_RECORD_SYMBOL>> >>,
            configurations |-> <<AlgY>>]
TornTags == {<<"t1">>, <<"WEEK", FULL_RECORD_SYMBOL>>}
TornRuns ==
    {MakeRun(CfgTorn, <<"/log">>, tag, triple, 1) :
        tag \in TornTags, triple \in Range(Triples(CfgTorn))}
TornBases == {<<>>, SeedRecord(2) \o <<"\n">>}

InitTorn ==
    /\ wait_takes_coroutines = TRUE   \* asyncio.wait is not called
    /\ yaml_load_defaults_loader = TRUE   \* nor is yaml.load
    /\ InitRun
    /\ cfg = CfgTorn /\ invLeft = 0 /\ nextUid = 0
    /\ fs = {1} /\ recorded = {}
    /\ \E rep_run \in TornRuns, base \in TornBases :
          LET line == _save_to_checkpoint(<<>>, rep_run)
          IN  \E n \in 0..(Len(line) - 1) :
                 /\ fnIn = [rep_run |-> rep_run, base |-> base, written |-> n]
                 /\ text = [NoText EXCEPT ![1] = base \o SubSeq(line, 1, n)]
    /\ fs0 = fs /\ text0 = text

ApplyTorn ==
    /\ pc = "idle"
    /\ pc' = "applied"
    /\ fnOut' = _load_and_prepare_checkpoint(Some(1), None, fs, text)
    /\ UNCHANGED <<clock, fs, text, cfg, invLeft, nextUid, raised, self,
                   max_parallel_processes, checkpoint, configurations, processes,
                   run_slots, total_done_count, task, ret_code, appended, seed,
                   recorded, failed_last, previous_checkpoint_path, fs0, text0, wait_takes_coroutines,
                   yaml_load_defaults_loader, fnIn>>

SpecTorn == InitTorn /\ [][ApplyTorn]_vars

\* An invocation seeded from a checkpoint that an earlier invocation was
\* cut off writing to: the previous checkpoint holds whole record lines, or
\* none, followed by a record cut before its sentinel, with no line break.
\* The load copies it to the current checkpoint, the runs that the expansion
\* yields succeed in any order and are appended, and the current checkpoint
\* is loaded again, as a later invocation loads it.
LostTag == <<"t1">>
LostLogDir == <<"/log">>
LostCuts == 1..(Len(SeedRecord(2)) - 1)

InitLost ==
    /\ wait_takes_coroutines = TRUE   \* asyncio.wait is not called
    /\ yaml_load_defaults_loader = TRUE   \* nor is yaml.load
    /\ InitRun
    /\ cfg = CfgTwo /\ invLeft = 0 /\ nextUid = 0
    /\ fs = {0} /\ recorded = {}
    /\ \E base \in {<<>>, SeedRecord(1) \o <<"\n">>}, n \in LostCuts :
          /\ fnIn = [base |-> base, cut |-> n]
          /\ text = [NoText EXCEPT ![0] = base \o SubSeq(SeedRecord(2), 1, n)]
    /\ fs0 = fs /\ text0 = text

\* _prepare_configurations of the invocation with the checkpoint path 1 and
\* the previous checkpoint path 0.
SeedLost ==
    /\ pc = "idle"
    /\ LET loaded == _load_and_prepare_checkpoint(Some(1), Some(0), fs, text)
           yielded == YieldedRuns(cfg, LostLogDir, LostTag, loaded.checkpoint, 0)
       IN  /\ loaded.raised = ""
           /\ fs' = loaded.fs /\ text' = loaded.text
           /\ checkpoint' = loaded.checkpoint
           /\ configurations' = yielded
           /\ seed' = loaded.text[1]
    /\ pc' = "seeded"
    /\ self' = [checkpoint_path |-> Some(1), shared_log_dir |-> LostLogDir,
                run_tag |-> LostTag]
    /\ previous_checkpoint_path' = Some(0)
    /\ UNCHANGED <<clock, cfg, invLeft, nextUid, raised, max_parallel_processes,
                   processes, run_slots, total_done_count, task, ret_code,
                   appended, recorded, failed_last, fs0, text0, wait_takes_coroutines,
                   yaml_load_defaults_loader, fnIn, fnOut>>

\* _save_to_checkpoint of a run of the invocation that succeeded.
AppendLost(i) ==
    /\ pc = "seeded"
    /\ i \in RunIds /\ i \notin Range(appended)
    /\ text' = [text EXCEPT ![1] = _save_to_checkpoint(text[1], configurations[i])]
    /\ appended' = Append(appended, i)
    /\ UNCHANGED <<clock, fs, cfg, invLeft, nextUid, pc, raised, self,
                   max_parallel_processes, checkpoint, configurations, processes,
                   run_slots, total_done_count, task, ret_code, seed,
                   recorded, failed_last, previous_checkpoint_path, fs0, text0,
                   wait_takes_coroutines,
                   yaml_load_defaults_loader, fnIn, fnOut>>

\* _load_and_prepare_checkpoint of the checkpoint the invocation left.
ReloadLost ==
    /\ pc = "seeded"
    /\ appended # <<>>
    /\ pc' = "applied"
    /\ fnOut' = _load_and_prepare_checkpoint(Some(1), None, fs, text)
    /\ UNCHANGED <<clock, fs, text, cfg, invLeft, nextUid, raised, self,
                   max_parallel_processes, checkpoint, configurations, processes,
                   run_slots, total_done_count, task, ret_code, appended, seed,
                   recorded, failed_last, previous_checkpoint_path, fs0, text0, wait_takes_coroutines,
                   yaml_load_defaults_loader, fnIn>>

NextLost ==
    \/ SeedLost
    \/ \E i \in RunIds : AppendLost(i)
    \/ ReloadLost

SpecLost == InitLost /\ [][NextLost]_vars

\* --------------------------------------------------------------- claims

Started == pc # "idle"
\* The exceptions of _load_and_prepare_checkpoint, raised before the
\* expansion yields anything.
LoadErrors == {"TypeError", "SameFileError", "ValueError"}
Bounded == Truthy(max_parallel_processes) /\ max_parallel_processes[1] >= 1
Unbounded == ~Truthy(max_parallel_processes)
\* The text of the current checkpoint file ("" when there is none).
CheckpointText ==
    IF self.checkpoint_path # None /\ self.checkpoint_path[1] \in fs
    THEN text[self.checkpoint_path[1]] ELSE <<>>
\* The record lines of a sequence of runs, as appended one after the other.
RECURSIVE RecordLines(_)
RecordLines(ids) ==
    IF ids = <<>> THEN <<>>
    ELSE _get_checkpoint_record(configurations[ids[1]]) \o <<"\n">>
         \o RecordLines(Tail(ids))

\* C1: with a bound N >= 1, in every reachable state at most N runs are
\* launched and not yet in a terminal state.
C1_BoundedConcurrency ==
    Bounded => Cardinality(InFlight) <= max_parallel_processes[1]

\* C1's case: a backlog of 3 runs under the bound 2, after a harvest, with
\* two runs in flight.
C1_Witness ==
    /\ pc = "waiting" /\ Bounded /\ max_parallel_processes[1] = 2
    /\ Len(configurations) = 3
    /\ total_done_count >= 1
    /\ Cardinality(InFlight) = 2

\* C3: a run that fails does not abort the scheduler (bound N >= 1, or no
\* bound): run_repetitions does not raise, it goes on waiting while runs are
\* left, and when it returns every run is in a terminal state and every run
\* that exited 0 has its record in the checkpoint file.
C3_FailureIsolation ==
    (Started /\ (Bounded \/ Unbounded) /\ \E i \in RunIds : task[i] = "failed") =>
        /\ pc \in {"waiting", "waitall", "returned"}
        /\ raised = ""
        /\ pc = "waiting" => run_slots # {}
        /\ pc = "returned" =>
              /\ \A i \in RunIds : task[i] \in Terminal
              /\ \A i \in RunIds :   \* the process exited, and with 0
                    task[i] = "succeeded" => i \in Range(appended)
              /\ CheckpointText = seed \o RecordLines(appended)

\* C4: the records this invocation appended to the checkpoint file are those
\* of runs whose process exited with code 0, one line each; a run that
\* exited non-zero, is pending or is in flight has no record appended.
C4_OnlySuccessesRecorded ==
    Started =>
        /\ CheckpointText = seed \o RecordLines(appended)
        /\ \A k \in 1..Len(appended) :
              /\ task[appended[k]] = "succeeded"
              /\ ret_code[appended[k]] = 0
        /\ \A i \in RunIds :
              (task[i] \in {"coroutine", "created", "running", "exited", "failed"}
               \/ ret_code[i] # 0) => i \notin Range(appended)

\* C4's case: one run failed, one succeeded and was recorded, one is still
\* in flight.
C4_Witness ==
    /\ Len(configurations) = 3
    /\ \E i, j, k \in RunIds :
          /\ task[i] = "failed" /\ ret_code[i] = 1
          /\ task[j] = "succeeded" /\ appended = <<j>>
          /\ task[k] = "running"

\* C7: the expansion yields exactly one run for every triple whose
\* idempotent checkpoint record is not in the loaded checkpoint set, and none
\* for a triple whose record is in it.
C7_RunOfTriple(k) ==
    MakeRun(cfg, self.shared_log_dir, self.run_tag, Triples(cfg)[k],
            nextUid - Len(Triples(cfg)) + k)
C7_ExpansionExact ==
    (Started /\ raised = "") =>
        /\ \A i \in RunIds : configurations[i].triple \in Range(Triples(cfg))
        /\ \A k \in 1..Len(Triples(cfg)) :
              Cardinality({i \in RunIds : configurations[i] = C7_RunOfTriple(k)})
                = IF _get_idempotent_checkpoint_record(C7_RunOfTriple(k)) \in checkpoint
                  THEN 0 ELSE 1
        /\ Len(configurations) =
              Cardinality({k \in 1..Len(Triples(cfg)) :
                  _get_idempotent_checkpoint_record(C7_RunOfTriple(k)) \notin checkpoint})

\* C7's case: of three triples one is in the loaded checkpoint set and is
\* skipped, the two others are yielded.
C7_Witness ==
    /\ Started /\ raised = ""
    /\ Len(Triples(cfg)) = 3
    /\ Cardinality(checkpoint) = 1
    /\ Len(configurations) = 2

\* C9: when the expansion yields nothing, run_repetitions launches no
\* process, appends nothing to the checkpoint and returns without an error.
C9_EmptyBacklog ==
    (Started /\ raised \notin LoadErrors /\ Len(configurations) = 0) =>
        /\ pc = "returned" /\ raised = ""
        /\ task = <<>> /\ run_slots = {} /\ processes = <<>>
        /\ appended = <<>>
        /\ CheckpointText = seed

\* C9's case: every triple of a configuration with three triples is in the
\* checkpoint set.
C9_Witness ==
    /\ pc = "returned" /\ raised = ""
    /\ Len(Triples(cfg)) = 3 /\ Cardinality(checkpoint) = 3
    /\ Len(configurations) = 0

\* C10: with no checkpoint path the load returns the empty set without an
\* error and every candidate run is scheduled.
C10_CheckpointingDisabled ==
    (Started /\ self.checkpoint_path = None) =>
        /\ raised = ""
        /\ checkpoint = {}
        /\ Len(configurations) = Len(Triples(cfg))

\* C2: a triple that an earlier invocation recorded as succeeded in its
\* checkpoint is never launched by a later invocation on the same
\* checkpoint directory, whatever its run tag.
C2_Resumability ==
    \A i \in RunIds : task[i] # "coroutine" => configurations[i].triple \notin recorded

\* C5: two runs with the same repetition_attempt, cmd and idempotent_args
\* have the same idempotent checkpoint record, whatever their uid, run tag
\* and log-file path.
C5_KeyEquivalence ==
    pc = "applied" => fnOut[1] = fnOut[2]

\* C6: for any text of the checkpoint file the load raises nothing and
\* returns exactly the idempotent records of the lines that end with the
\* sentinel.
C6_LoadedSet ==
    pc = "applied" =>
        /\ fnOut.raised = ""
        /\ fnOut.checkpoint =
              {KeyOfRecord(AcceptedLines(text[1])[k]) :
                  k \in 1..Len(AcceptedLines(text[1]))}

\* C8: under a bound N >= 1 or without a bound, when every process exits,
\* every run is launched and reaches a terminal state, run_repetitions
\* returns, and it returns only when no run is left in the backlog or in
\* flight.
C8_Liveness ==
    /\ \A i \in LiveRuns :
          ((Bounded \/ Unbounded) /\ i \in RunIds)
              ~> (i \in RunIds /\ task[i] \in Terminal)
    /\ ((Bounded \/ Unbounded) /\ pc \in {"waiting", "waitall"}) ~> (pc = "returned")
    /\ []((pc = "returned" /\ (Bounded \/ Unbounded)) =>
              (Backlog = {} /\ InFlight = {}))

\* C11: for any set of files of the checkpoint directory, find_checkpoints
\* raises nothing, returns as previous checkpoint a file matching
\* <prefix>_*.txt whose time stamp is the latest of the matching files, None
\* when no file matches, and as current checkpoint <prefix>_<now>.txt.
C11_Matching == GlobCheckpoints(fnIn.files, FindDir, FindPrefix)
C11_Discovery ==
    pc = "applied" =>
        /\ fnOut.raised = ""
        /\ C11_Matching = {} => fnOut.previous = None
        /\ C11_Matching # {} =>
              /\ fnOut.previous # None
              /\ fnOut.previous[1] \in C11_Matching
              /\ \A g \in C11_Matching :
                    extract_datetime(g) <= extract_datetime(fnOut.previous[1])
        /\ fnOut.current =
              Some(FindPath(FindPrefix \o <<"_">> \o Strftime(fnIn.now) \o <<".txt">>))

\* C12: when the previous checkpoint path is given, exists and differs from
\* the current path, the load makes the text of the current checkpoint file
\* the text of the previous one, returns the idempotent records of the
\* previous file's lines that end with the sentinel, and the previous file
\* keeps its text through the load and through every append of the
\* invocation, which all go to the current file.
C12_Seeded ==
    /\ Started
    /\ self.checkpoint_path # None /\ previous_checkpoint_path # None
    /\ previous_checkpoint_path[1] \in fs0
    /\ previous_checkpoint_path # self.checkpoint_path
C12_CarryForward ==
    C12_Seeded =>
        LET previous == previous_checkpoint_path[1]
            accepted == AcceptedLines(text0[previous])
        IN  /\ ~(pc = "raised" /\ task = <<>>)   \* the load raised nothing
            /\ seed = text0[previous]
            /\ checkpoint = {KeyOfRecord(accepted[k]) : k \in 1..Len(accepted)}
            /\ previous \in fs /\ text[previous] = text0[previous]
            /\ CheckpointText = text0[previous] \o RecordLines(appended)

\* C12's case: the previous checkpoint holds one record, the current one
\* was seeded with it, and this invocation appended a record of its own.
C12_Witness ==
    /\ C12_Seeded
    /\ Len(AcceptedLines(text0[previous_checkpoint_path[1]])) = 1
    /\ Cardinality(checkpoint) = 1
    /\ Len(appended) = 1
    /\ CheckpointText # text[previous_checkpoint_path[1]]

\* C13: when a previous checkpoint path is given and no such file exists,
\* the load copies nothing, raises nothing, and returns the set parsed from
\* the current checkpoint file if that exists and the empty set otherwise.
C13_MissingPrevious ==
    /\ pc = "applied"
    /\ fnIn.previous_checkpoint_path # None
    /\ fnIn.previous_checkpoint_path[1] \notin fs
C13_MissingPreviousNonFatal ==
    C13_MissingPrevious =>
        LET current == fnIn.checkpoint_path[1]
            accepted == AcceptedLines(text[current])
        IN  /\ fnOut.raised = ""
            /\ fnOut.fs = fs /\ fnOut.text = text
            /\ fnOut.checkpoint =
                  IF current \in fs
                  THEN {KeyOfRecord(accepted[k]) : k \in 1..Len(accepted)}
                  ELSE {}

\* C13's case: the previous checkpoint is missing and the current one
\* exists with two records, which are loaded.
C13_Witness ==
    /\ C13_MissingPrevious
    /\ fnIn.checkpoint_path[1] \in fs
    /\ Cardinality(fnOut.checkpoint) = 2

\* C14: when the configuration lacks the datasets or the configurations
\* key, or there is a dataset and some configuration entry (the last one
\* included) lacks cmd, args, workdir or repetitions, and the loading of the
\* checkpoint raised nothing, run_repetitions raises the KeyError and no
\* process of the invocation has been launched, no task created and no
\* record appended.
C14_LacksKey ==
    \/ "datasets" \notin DOMAIN cfg
    \/ "configurations" \notin DOMAIN cfg
    \/ /\ cfg.datasets # <<>>
       /\ \E c \in 1..Len(cfg.configurations) :
             \E key \in {"cmd", "args", "workdir", "repetitions"} :
                key \notin DOMAIN cfg.configurations[c]
C14_ConfigErrorsAbort ==
    (Started /\ C14_LacksKey /\ raised \notin LoadErrors) =>
        /\ pc = "raised" /\ raised = "KeyError"
        /\ configurations = <<>> /\ task = <<>>
        /\ processes = <<>> /\ run_slots = {}
        /\ appended = <<>>

\* C14's case: the last of two configuration entries lacks repetitions, the
\* checkpoint was loaded, and the invocation ended with the KeyError.
C14_Witness ==
    /\ cfg = CfgBadLast("repetitions")
    /\ pc = "raised" /\ raised = "KeyError"
    /\ self.checkpoint_path # None
    /\ task = <<>>

\* C15: an invocation that has ended (bound N >= 1, or no bound) signals
\* failure when at least one of its runs exited non-zero, so it signals
\* success only if no run failed; and every scheduled run was attempted.
C15_OverallOutcome ==
    (pc \in {"returned", "raised"} /\ (Bounded \/ Unbounded)) =>
        /\ \A i \in RunIds : task[i] \in Terminal
        /\ (\E i \in RunIds : task[i] = "failed") => ExitStatus # 0

\* C16: a triple whose run failed in the invocation before this one, and
\* that no earlier invocation recorded, is not in the checkpoint set this
\* invocation loads: when this invocation has ended, the expansion has
\* yielded one run for the triple and that run has been launched.  Within
\* an invocation a run that failed stays failed: it is not launched again.
C16_KeyOfTriple(t) ==
    _get_idempotent_checkpoint_record(
        MakeRun(cfg, self.shared_log_dir, self.run_tag, t, 0))
C16_ToRetry == failed_last \ recorded
C16_Ended == pc \in {"returned", "raised"}
C16_Retried ==
    C16_Ended =>
        \A t \in C16_ToRetry :
            /\ C16_KeyOfTriple(t) \notin checkpoint
            /\ Cardinality({i \in RunIds : configurations[i].triple = t}) = 1
            /\ \A i \in RunIds :
                  configurations[i].triple = t => task[i] # "coroutine"
C16_NoRetryWithin ==
    invLeft' = invLeft =>
        \A i \in RunIds : task[i] = "failed" => (i \in DOMAIN task' /\ task'[i] = "failed")
C16_RetryByResume == []C16_Retried /\ [][C16_NoRetryWithin]_vars

\* C17: with a bound N >= 1 the first wait is for min(N, number of runs)
\* tasks, every harvest leaves min(N, tasks still pending + backlog) tasks
\* to wait for, none of them done, and so at every wait at most N tasks are
\* waited for, and exactly N while the backlog is not empty.
C17_AtWait ==
    (pc = "waiting" /\ Bounded) =>
        /\ Cardinality(run_slots) =
              Min(max_parallel_processes[1], Cardinality(run_slots) + Len(processes))
        /\ Len(processes) > 0 => Cardinality(run_slots) = max_parallel_processes[1]
        /\ Range(processes) = Backlog
C17_Seeded ==
    (pc # "waiting" /\ pc' = "waiting" /\ Truthy(max_parallel_processes')
     /\ max_parallel_processes'[1] >= 1) =>
        /\ Cardinality(run_slots') =
              Min(max_parallel_processes'[1], Len(configurations'))
        /\ \A i \in run_slots' : task'[i] = "created"
C17_Refilled ==
    (pc = "waiting" /\ Bounded /\ total_done_count' # total_done_count) =>
        LET pending == {i \in run_slots : task[i] \notin Terminal}
        IN  /\ Cardinality(run_slots') =
                  Min(max_parallel_processes[1], Cardinality(pending) + Len(processes))
            /\ \A i \in run_slots' : task'[i] \notin Terminal
C17_SlotsFilled ==
    []C17_AtWait /\ [][C17_Seeded]_vars /\ [][C17_Refilled]_vars

\* C17's case: under the bound 2 the first of three runs was harvested and
\* its slot was given to the last run of the backlog.
C17_Witness ==
    /\ pc = "waiting" /\ Bounded /\ max_parallel_processes[1] = 2
    /\ Len(configurations) = 3
    /\ total_done_count = 1
    /\ processes = <<>>
    /\ Cardinality(run_slots) = 2 /\ 3 \in run_slots
    /\ task[3] = "created"

\* C18: within an invocation a run is Pending (a coroutine not yet
\* launched), then InFlight (launched, not ended), then Succeeded or
\* Failed, and takes no other step: a run that has ended stays as it is, a
\* launched run is never launched again, and no run ends without having
\* been launched.  In the bounded loop the backlog holds exactly the
\* Pending runs, each once, and none of them is among the tasks waited for.
C18_State(t) ==
    CASE t = "coroutine" -> "Pending"
      [] t \in {"created", "running", "exited"} -> "InFlight"
      [] t = "succeeded" -> "Succeeded"
      [] t = "failed" -> "Failed"
C18_Steps ==
    {<<"Pending", "InFlight">>, <<"InFlight", "Succeeded">>, <<"InFlight", "Failed">>}
C18_Moves ==
    IF invLeft' = invLeft
    THEN /\ DOMAIN task' = DOMAIN task
         /\ \A i \in RunIds :
               \/ C18_State(task'[i]) = C18_State(task[i])
               \/ <<C18_State(task[i]), C18_State(task'[i])>> \in C18_Steps
    ELSE \A i \in DOMAIN task' : task'[i] \in {"coroutine", "created"}
C18_Disjoint ==
    (pc = "waiting") =>
        /\ \A i \in RunIds : task[i] = "coroutine" <=> i \in Range(processes)
        /\ \A j, k \in 1..Len(processes) : processes[j] = processes[k] => j = k
        /\ Range(processes) \cap run_slots = {}
        /\ \A i \in run_slots : task[i] # "coroutine"
        /\ InFlight \subseteq run_slots
C18_StateMachine == []C18_Disjoint /\ [][C18_Moves]_vars

\* C18's case: under the bound 1 the first run has failed, the second was
\* launched after it and its process has exited, the third is pending.
C18_Witness ==
    /\ pc = "waiting" /\ Bounded /\ max_parallel_processes[1] = 1
    /\ Len(configurations) = 3
    /\ task = <<"failed", "exited", "coroutine">>
    /\ processes = <<3>>

\* C19: in an invocation that keeps a checkpoint, a step either leaves the
\* checkpoint file as it is or is the end of one run whose process exited
\* with 0 and puts the whole record line of that run after the text the file
\* had; no other file changes.  So the file is its text at load time
\* followed by whole record lines, one for each run that succeeded, in any
\* order the runs end in.
C19_Append ==
    invLeft' = invLeft =>
        /\ \A f \in Stamps :
              Some(f) # self.checkpoint_path =>
                  /\ text'[f] = text[f]
                  /\ f \in fs' <=> f \in fs
        /\ \/ /\ CheckpointText' = CheckpointText
              /\ \/ self.checkpoint_path = None
                 \/ \A i \in RunIds : task'[i] = "succeeded" => task[i] = "succeeded"
           \/ \E i \in RunIds :
                 /\ task[i] = "exited" /\ ret_code[i] = 0
                 /\ task'[i] = "succeeded"
                 /\ \A j \in RunIds \ {i} : task'[j] = task[j]
                 /\ CheckpointText' =
                       CheckpointText \o _get_checkpoint_record(configurations[i])
                       \o <<"\n">>
C19_Lines ==
    (Started /\ self.checkpoint_path # None) =>
        LET lines == ReadLines(CheckpointText)
            kept == Len(ReadLines(seed))
        IN  /\ \A i \in RunIds :
                  Cardinality({k \in 1..Len(appended) : appended[k] = i})
                    = IF task[i] = "succeeded" THEN 1 ELSE 0
            /\ Len(lines) = kept + Len(appended)
            /\ SubSeq(lines, 1, kept) = ReadLines(seed)
            /\ \A k \in 1..Len(appended) :
                  lines[kept + k] =
                      _get_checkpoint_record(configurations[appended[k]]) \o <<"\n">>
C19_SingleWriterAppendOnly == []C19_Lines /\ [][C19_Append]_vars

\* C19's case: a checkpoint seeded with one record, and two runs in flight
\* at once that ended in the other order than they were launched in, each
\* with its line.
C19_Witness ==
    /\ Started /\ self.checkpoint_path # None
    /\ Len(ReadLines(seed)) = 1
    /\ appended = <<2, 1>>
    /\ Len(ReadLines(CheckpointText)) = 3

\* C20: loading a checkpoint file that ends with a proper prefix of the
\* record line of a run raises nothing and adds no key for the prefix: the
\* loaded set is the set of the whole lines before it.
C20_PartialRecordIgnored ==
    pc = "applied" =>
        /\ fnOut.raised = ""
        /\ fnOut.checkpoint = ParseCheckpoint(fnIn.base).checkpoint

\* C21: when an invocation was seeded from a checkpoint that ends with a
\* record cut before its sentinel, and appended the records of runs that
\* succeeded, a later load of its checkpoint raises nothing and its set
\* holds the key of every one of those runs.
C21_OnlyTruncatedRecordLost ==
    pc = "applied" =>
        /\ fnOut.raised = ""
        /\ \A k \in 1..Len(appended) :
              _get_idempotent_checkpoint_record(configurations[appended[k]])
                \in fnOut.checkpoint

\* C22: when the previous checkpoint path is the current checkpoint path,
\* the load copies nothing, raises nothing, leaves the file as it is and
\* returns the set parsed from it.
C22_SamePathSkipped ==
    (pc = "applied" /\ fnIn.previous_checkpoint_path # None
     /\ fnIn.previous_checkpoint_path = fnIn.checkpoint_path) =>
        LET current == fnIn.checkpoint_path[1]
        IN  /\ fnOut.raised = ""
            /\ fnOut.fs = fs /\ fnOut.text = text
            /\ fnOut.checkpoint =
                  IF current \in fs THEN ParseCheckpoint(text[current]).checkpoint
                  ELSE {}

\* C23: no two runs that the expansion yields for one invocation have the
\* same idempotent checkpoint record, whatever the configuration.
C23_ExpansionDeduplicates ==
    (Started /\ raised = "") =>
        \A i, j \in RunIds :
            _get_idempotent_checkpoint_record(configurations[i])
              = _get_idempotent_checkpoint_record(configurations[j]) => i = j

\* C24: within an invocation the checkpoint set and the list of runs that
\* the expansion yielded never change; a run leaves the backlog only by
\* being launched, and the append of a run that succeeded changes neither
\* the backlog nor any other run; so every run the expansion yielded has
\* been launched when the invocation has ended, in whatever order the runs
\* end.
C24_Frame ==
    invLeft' = invLeft =>
        /\ checkpoint' = checkpoint
        /\ configurations' = configurations
        /\ \A i \in Backlog : i \in Backlog' \/ task'[i] = "created"
        /\ appended' # appended =>
              /\ Backlog' = Backlog
              /\ processes' = processes /\ run_slots' = run_slots
C24_AllLaunched ==
    pc \in {"returned", "raised"} =>
        \A i \in RunIds : task[i] # "coroutine"
C24_ScheduledSetFixed == []C24_AllLaunched /\ [][C24_Frame]_vars

\* C25: when run_repetitions raises before any run is scheduled, the
\* checkpoint directory holds the files it held when main was called, each
\* with the text it had.
C25_SetupErrorsTouchNothing ==
    (pc = "raised" /\ task = <<>>) => (fs = fs0 /\ text = text0)

\* ------------------------------------------------ keys of different runs

\* A configuration with a dataset name that holds a space, and two entries of
\* one command whose args differ by one argument.
DSpaced == <<"d1", " ", "-y">>
AlgYY == [cmd |-> <<"fit">>, args |-> <<"-y", " ", "-y">>,
          workdir |-> <<"/", "w", "/", "..", "/", "v">>,
          repetitions |-> 1]
CfgDistinct == [datasets |-> <<D1, DSpaced>>,
                configurations |-> <<AlgY, AlgYY, AlgX>>]
DistinctTags == {<<"t1">>, <<"t2">>}
DistinctRuns ==
    {MakeRun(CfgDistinct, <<"/log">>, tag, triple, uid) :
        tag \in DistinctTags, triple \in Range(Triples(CfgDistinct)), uid \in 1..2}

\* Two runs that differ in repetition_attempt, cmd or idempotent_args.
InitDistinct ==
    /\ wait_takes_coroutines = TRUE   \* asyncio.wait is not called
    /\ yaml_load_defaults_loader = TRUE   \* nor is yaml.load
    /\ InitRun
    /\ cfg = CfgDistinct /\ invLeft = 0 /\ nextUid = 0
    /\ fs = {} /\ text = NoText /\ recorded = {}
    /\ \E a, b \in DistinctRuns :
          /\ \/ a.repetition_attempt # b.repetition_attempt
             \/ a.cmd # b.cmd
             \/ a.idempotent_args # b.idempotent_args
          /\ fnIn = <<a, b>>
    /\ fs0 = fs /\ text0 = text

\* The keys of the two runs, and whether the second is yielded by an
\* expansion whose checkpoint file holds the record of the first.
ApplyDistinct ==
    /\ pc = "idle"
    /\ pc' = "applied"
    /\ LET saved == _save_to_checkpoint(<<>>, fnIn[1])
           loaded == ParseCheckpoint(saved)
       IN  fnOut' = [keys |-> <<_get_idempotent_checkpoint_record(fnIn[1]),
                                _get_idempotent_checkpoint_record(fnIn[2])>>,
                     yielded |-> IsNotInCheckpoint(loaded.checkpoint, fnIn[2])]
    /\ UNCHANGED <<clock, fs, text, cfg, invLeft, nextUid, raised, self,
                   max_parallel_processes, checkpoint, configurations, processes,
                   run_slots, total_done_count, task, ret_code, appended, seed,
                   recorded, failed_last, previous_checkpoint_path, fs0, text0, wait_takes_coroutines,
                   yaml_load_defaults_loader, fnIn>>

SpecDistinct == InitDistinct /\ [][ApplyDistinct]_vars

\* C27: two runs that differ in repetition_attempt, cmd or idempotent_args
\* have different keys, and the second is yielded by an expansion whose
\* checkpoint holds only the record of the first.
C27_KeysDistinguish ==
    pc = "applied" =>
        /\ fnOut.keys[1] # fnOut.keys[2]
        /\ fnOut.yielded

\* The runs that have ended, and the count that the progress line reports as
\* left: len(configurations) - total_done_count.
C26_Ended == {i \in RunIds : task[i] \in Terminal}
C26_Left == Len(configurations) - total_done_count

\* A turn of the bounded loop that harvested: the count moved while waiting.
C26_Harvested == pc = "waiting" /\ total_done_count' # total_done_count

C26_Step ==
    /\ (Bounded /\ C26_Harvested) =>
          /\ total_done_count' = Cardinality(C26_Ended')
          /\ C26_Left' = Cardinality(InFlight') + Cardinality(Backlog')
          /\ total_done_count' + C26_Left' = Len(configurations)
    /\ (Bounded /\ pc = "waiting") => total_done_count' >= total_done_count

C26_AtReturn ==
    (Bounded /\ pc = "returned") => total_done_count = Len(configurations)

\* C26: with a bound N >= 1, after every harvest total_done_count is the
\* number of runs that have ended, the count reported as left is the number
\* of runs in flight plus the number not yet launched, the two add up to the
\* number of runs of the invocation, total_done_count never decreases while
\* the loop runs, and it is the number of runs when run_repetitions returns.
C26_ProgressAccounting == []C26_AtReturn /\ [][C26_Step]_vars

\* Witness of C26: after a harvest of the bounded loop two runs are counted,
\* one of them failed, and a third is in flight.
C26_Witness ==
    /\ Bounded /\ pc = "waiting"
    /\ total_done_count = 2
    /\ Cardinality(C26_Ended) = 2
    /\ \E i \in C26_Ended : task[i] = "failed"
    /\ Cardinality(InFlight) = 1

\* C28: whatever the value of max_parallel_processes, when run_repetitions
\* returns from a list of runs that is not empty, every run has been
\* launched: none is still a coroutine that was never made a task.
C28_NoRunDropped ==
    (pc = "returned" /\ Len(configurations) > 0) => Backlog = {}
====
